---- MODULE Spec2Model ----
(***************************************************************************)
(* Model of the Livepeer reward watcher (src/main.go; src/unnamed/part_000 *)
(* is the same program with an e-mail channel added).                      *)
(*                                                                         *)
(* The program is one goroutine: the RPC failover loop of main(), which    *)
(* connects, loads the ABIs, opens two log subscriptions and then selects  *)
(* over the two subscription error channels, the two log channels and a    *)
(* ticker.  pc is the position of that goroutine.  Time is counted in      *)
(* units of five seconds, the length of the shortest sleep of the loop.    *)
(***************************************************************************)
EXTENDS Integers, Sequences, FiniteSets, TLC

VARIABLES
    \* flags (main.go:116-122), fixed after flag.Parse()
    delay, repeat, maxRetryTime,
    disableSuccessAlerts, disableRoundAlerts, enableRPCAlerts,
    \* locals of main() declared before the failover loop (main.go:143-148)
    currentRound, roundStart, rewardCalled, sentWarning,
    retryStartTime, sentInitialMonitoringAlert,
    \* locals of one iteration of the failover loop
    client, rewardSub, roundSub, ticker,
    \* environment: the clock and the connections that are open
    now, conns,
    \* control position of main()
    pc,
    \* observation of the last step: which step it was, the alert it handed
    \* to sendAlert, the topics of the last NewRound log
    step, alert, topics,
    \* the round state before the last step
    prev,
    \* observation of the current round: warnings sent, ticks processed with
    \* elapsed >= delay, and those of them processed with rewardCalled false
    warnings, dueTicks, dueTicksNoReward,
    \* time at which connectToRPC last returned a client
    lastConnOk,
    \* connectToRPC checked on its own: the list it is given and what it returns
    rpcList, rpcResult,
    \* sendAlert checked on its own: the channel configuration, what each
    \* channel's send does, and what sendAlert returns
    alertCfg, sendOutcome, alertResult,
    \* a sendAlert call of main() has not returned
    delivering

vars == << delay, repeat, maxRetryTime,
           disableSuccessAlerts, disableRoundAlerts, enableRPCAlerts,
           currentRound, roundStart, rewardCalled, sentWarning,
           retryStartTime, sentInitialMonitoringAlert,
           client, rewardSub, roundSub, ticker,
           now, conns, pc, step, alert, topics, prev,
           warnings, dueTicks, dueTicksNoReward, lastConnOk,
           rpcList, rpcResult, alertCfg, sendOutcome, alertResult,
           delivering >>

---------------------------------------------------------------------------
\* Bounds of the model.

\* the clock stops at MaxTime
MaxTime == 7
\* round numbers carried by NewRound logs are 0..MaxRound
MaxRound == 1
\* --delay
Delay == 2
\* --check-interval
CheckInterval == 2
\* --max-retry-time is 0 or RetryWindow
RetryWindow == 3
\* number of RPC URLs on the command line
MaxRpcs == 3

\* Program constants, in units of five seconds.

\* context.WithTimeout(..., 5*time.Second) in connectToRPC
ConnectTimeout == 1
\* time.Sleep(30 * time.Second) after a failed connectToRPC
ConnFailSleep == 6
\* time.Sleep(5 * time.Second) after a failed subscription
SubFailSleep == 1
\* time.Sleep(5 * time.Second) in the cleanup
CleanupSleep == 1

\* the zero time.Time
ZeroTime == -1
\* no client
NoClient == 0

---------------------------------------------------------------------------
\* connectToRPC

\* What one RPC endpoint does when it is dialled with a context that has not
\* expired: it works, the dial fails, the dial succeeds and eth_blockNumber
\* fails, or the dial or eth_blockNumber blocks until the context's deadline.
Behaviours == {"ok", "dialErr", "probeErr", "dialHang", "probeHang"}

\* TryEndpoint without the c.Close() of a client whose probe failed
TryEndpoint_NoClose(rpcs, i, s) ==
    LET b == rpcs[i]
        dialed == ~s.expired /\ b \in {"ok", "probeErr", "probeHang"}
        probed == dialed /\ b = "ok"
        hangs == ~s.expired /\ b \in {"dialHang", "probeHang"}
    IN  IF probed
        THEN [s EXCEPT !.done = TRUE, !.client = i, !.open = s.open \cup {i}]
        ELSE [s EXCEPT !.expired = s.expired \/ hangs,
                       !.elapsed = IF hangs THEN ConnectTimeout ELSE s.elapsed,
                       !.open = IF dialed THEN s.open \cup {i} ELSE s.open]

\* The body of the loop of connectToRPC for the URL at index i.  s is the
\* state of the call: done, the client and error it returns, the connections
\* it has open, whether ctx has expired and the time the call has taken.
\* All URLs share one ctx: once it has expired every dial and probe fails.
TryEndpoint(rpcs, i, s) ==
    LET b == rpcs[i]
        dialed == ~s.expired /\ b \in {"ok", "probeErr", "probeHang"}
        probed == dialed /\ b = "ok"
        hangs == ~s.expired /\ b \in {"dialHang", "probeHang"}
    IN  IF probed
        THEN [s EXCEPT !.done = TRUE, !.client = i, !.open = s.open \cup {i}]
        ELSE [s EXCEPT !.expired = s.expired \/ hangs,
                       !.elapsed = IF hangs THEN ConnectTimeout ELSE s.elapsed]

RECURSIVE ConnectLoop(_, _, _)
ConnectLoop(rpcs, i, s) ==
    IF s.done \/ i > Len(rpcs)
    THEN s
    ELSE ConnectLoop(rpcs, i + 1, TryEndpoint(rpcs, i, s))

\* connectToRPC(rpcs): err is TRUE when it returns "all RPCs failed".
connectToRPC(rpcs) ==
    LET s == ConnectLoop(rpcs, 1,
                 [done |-> FALSE, client |-> NoClient, open |-> {},
                  expired |-> FALSE, elapsed |-> 0])
    IN  [client |-> s.client, err |-> ~s.done, open |-> s.open,
         elapsed |-> s.elapsed]

RpcLists == UNION { [1..n -> Behaviours] : n \in 1..MaxRpcs }

\* what connectToRPC can return for the MaxRpcs URLs of the command line,
\* over everything the endpoints can do during one call
ConnectOutcomes == { connectToRPC(rpcs) : rpcs \in [1..MaxRpcs -> Behaviours] }

NoResult == [client |-> NoClient, err |-> FALSE, open |-> {}, elapsed |-> 0]

---------------------------------------------------------------------------
\* sendAlert (src/unnamed/part_000, the variant with the e-mail channel)

\* a string of the environment: empty or not
Strs == {"", "x"}

\* EmailConfig; Port is not among the fields complete() tests
EmailConfigs ==
    [Host : Strs, Username : Strs, Password : Strs, From : Strs,
     To : {<<>>, <<"x">>}]

\* the channel arguments of sendAlert
AlertConfigs ==
    [botToken : Strs, chatID : Strs, discordWebhook : Strs, emailCfg : EmailConfigs]

\* what http.Post does for the webhook and the bot, and smtp.SendMail for
\* the e-mail: "err" is a returned error, "badStatus" an HTTP response with
\* an error status
SendOutcomes ==
    [Discord : {"ok", "badStatus", "err"}, Telegram : {"ok", "badStatus", "err"},
     Email : {"ok", "err"}]

\* EmailConfig.complete
complete(c) ==
    c.Host # "" /\ c.From # "" /\ Len(c.To) > 0 /\ c.Username # "" /\ c.Password # ""

\* sendDiscordAlert and sendTelegramAlert return an error only when
\* http.Post does; the status of the response is not read
sendHTTPAlert(o) ==
    o = "err"

\* sendEmailAlert returns an error for an incomplete config or when
\* smtp.SendMail does
sendEmailAlert(c, o) ==
    IF ~complete(c) THEN TRUE ELSE o = "err"

\* sendAlert that returns at the first channel whose send fails
sendAlert_StopsAtFirstFailure(cfg, out) ==
    LET d == cfg.discordWebhook # ""
        dErr == d /\ sendHTTPAlert(out.Discord)
        t == ~dErr /\ cfg.botToken # "" /\ cfg.chatID # ""
        tErr == t /\ sendHTTPAlert(out.Telegram)
        e == ~dErr /\ ~tErr /\ complete(cfg.emailCfg)
        eErr == e /\ sendEmailAlert(cfg.emailCfg, out.Email)
        failed == (IF dErr THEN <<"Discord">> ELSE <<>>)
                  \o (IF tErr THEN <<"Telegram">> ELSE <<>>)
                  \o (IF eErr THEN <<"Email">> ELSE <<>>)
    IN  [attempted |-> (IF d THEN {"Discord"} ELSE {})
                       \cup (IF t THEN {"Telegram"} ELSE {})
                       \cup (IF e THEN {"Email"} ELSE {}),
         failed |-> failed,
         err |-> Len(failed) > 0]

\* sendAlert: the channels it sends to, the names in its error and whether
\* it returns an error
sendAlert(cfg, out) ==
    LET d == cfg.discordWebhook # ""
        dErr == d /\ sendHTTPAlert(out.Discord)
        t == cfg.botToken # "" /\ cfg.chatID # ""
        tErr == t /\ sendHTTPAlert(out.Telegram)
        e == complete(cfg.emailCfg)
        eErr == e /\ sendEmailAlert(cfg.emailCfg, out.Email)
        failed == (IF dErr THEN <<"Discord">> ELSE <<>>)
                  \o (IF tErr THEN <<"Telegram">> ELSE <<>>)
                  \o (IF eErr THEN <<"Email">> ELSE <<>>)
    IN  [attempted |-> (IF d THEN {"Discord"} ELSE {})
                       \cup (IF t THEN {"Telegram"} ELSE {})
                       \cup (IF e THEN {"Email"} ELSE {}),
         failed |-> failed,
         err |-> Len(failed) > 0]

\* the channel configuration of the runs of main(): the webhook alone
WebhookOnly ==
    [botToken |-> "", chatID |-> "", discordWebhook |-> "x",
     emailCfg |-> [Host |-> "", Username |-> "", Password |-> "", From |-> "",
                   To |-> <<>>]]

AllDelivered == [Discord |-> "ok", Telegram |-> "ok", Email |-> "ok"]

NoAlertResult == [attempted |-> {}, failed |-> <<>>, err |-> FALSE]

---------------------------------------------------------------------------
\* The round state machine

\* A topic is a 256-bit common.Hash, kept as the part above bit 64 (hi) and
\* the low 64 bits (lo).
Hashes == [hi : 0..1, lo : 0..MaxRound]

\* Topics[0] of a NewRound log: newRoundEvent.ID
NewRoundID == [hi |-> 1, lo |-> 0]

\* vLog.Topics of a NewRound log: the event ID, then the indexed round.
TopicLists == { <<>>, <<NewRoundID>> } \cup { <<NewRoundID, h>> : h \in Hashes }

\* Hash.Big().Uint64(): the low 64 bits
Uint64(h) ==
    h.lo

\* DecodeRound with the length test off by one
DecodeRound_OffByOne(t) ==
    IF Len(t) > 2 THEN Uint64(t[2]) ELSE 0

\* DecodeRound that never yields a round below currentRound
DecodeRound_NeverLower(t) ==
    LET n == IF Len(t) > 1 THEN Uint64(t[2]) ELSE 0
    IN  IF n < currentRound THEN currentRound ELSE n

\* roundNum of the roundCh case
DecodeRound(t) ==
    IF Len(t) > 1 THEN Uint64(t[2]) ELSE 0

\* WarningDue with elapsed > delay in place of elapsed >= delay
WarningDue_StrictDelay ==
    /\ ~rewardCalled /\ roundStart # ZeroTime
    /\ now - roundStart > delay
    /\ (repeat \/ ~sentWarning)

\* WarningDue without the test of sentWarning
WarningDue_IgnoresSent ==
    /\ ~rewardCalled /\ roundStart # ZeroTime
    /\ now - roundStart >= delay

\* WarningDue without the test of the repeat flag
WarningDue_IgnoresRepeat ==
    /\ ~rewardCalled /\ roundStart # ZeroTime
    /\ now - roundStart >= delay
    /\ ~sentWarning

\* WarningDue without the test of roundStart.IsZero()
WarningDue_IgnoresRoundStart ==
    /\ ~rewardCalled
    /\ now - roundStart >= delay
    /\ (repeat \/ ~sentWarning)

\* WarningDue without the test of rewardCalled
WarningDue_IgnoresReward ==
    /\ roundStart # ZeroTime
    /\ now - roundStart >= delay
    /\ (repeat \/ ~sentWarning)

\* the condition of the ticker case under which the warning is sent
WarningDue ==
    IF ~rewardCalled /\ roundStart # ZeroTime
    THEN IF now - roundStart >= delay
         THEN repeat \/ ~sentWarning
         ELSE FALSE
    ELSE FALSE

\* GiveUpDue without the test that disables it for --max-retry-time=0
GiveUpDue_NoDisable ==
    now - retryStartTime > maxRetryTime

\* the condition of the give-up check at the top of the failover loop
GiveUpDue ==
    maxRetryTime > 0 /\ now - retryStartTime > maxRetryTime

RoundState == << currentRound, roundStart, rewardCalled, sentWarning >>

\* the round state, as the record kept in prev
Snapshot ==
    [currentRound |-> currentRound, roundStart |-> roundStart,
     rewardCalled |-> rewardCalled, sentWarning |-> sentWarning]

flags == << delay, repeat, maxRetryTime,
            disableSuccessAlerts, disableRoundAlerts, enableRPCAlerts >>

roundObs == << warnings, dueTicks, dueTicksNoReward >>

\* the variables of the functions that are checked on their own, and
\* delivering, which no step of main() changes: a step is taken only when
\* the sendAlert call of the step before has returned
connVars == << rpcList, rpcResult, alertCfg, sendOutcome, alertResult,
               delivering >>

---------------------------------------------------------------------------
\* main.go:143-148: the state of main() when it enters the failover loop
InitMain ==
    /\ currentRound = 0
    /\ roundStart = ZeroTime
    /\ rewardCalled = FALSE
    /\ sentWarning = FALSE
    /\ retryStartTime = 0
    /\ sentInitialMonitoringAlert = FALSE
    /\ client = NoClient
    /\ rewardSub = FALSE
    /\ roundSub = FALSE
    /\ ticker = ZeroTime
    /\ now = 0
    /\ conns = {}
    /\ pc = "top"
    /\ step = "start"
    /\ alert = "none"
    /\ topics = <<>>
    /\ prev = Snapshot
    /\ warnings = 0
    /\ dueTicks = 0
    /\ dueTicksNoReward = 0
    /\ lastConnOk = 0
    /\ delivering = FALSE

\* The watcher with --repeat and --max-retry-time drawn from their values and
\* the three alert flags at their defaults (main.go:119-121).
Init ==
    /\ delay = Delay
    /\ repeat \in BOOLEAN
    /\ maxRetryTime \in {0, RetryWindow}
    /\ disableSuccessAlerts = FALSE
    /\ disableRoundAlerts = FALSE
    /\ enableRPCAlerts = FALSE
    /\ InitMain
    /\ rpcList = <<>>
    /\ rpcResult = NoResult
    /\ alertCfg = WebhookOnly
    /\ sendOutcome = AllDelivered
    /\ alertResult = NoAlertResult

\* main.go:151-155: the retry window is exceeded: fatal alert, log.Fatalf
GiveUp ==
    /\ pc = "top"
    /\ GiveUpDue
    /\ pc' = "gaveUp"
    /\ step' = "giveUp"
    /\ prev' = Snapshot
    /\ alert' = "fatal"
    /\ UNCHANGED << flags, RoundState, retryStartTime, sentInitialMonitoringAlert,
                    client, rewardSub, roundSub, ticker, now, conns, topics,
                    roundObs, lastConnOk, connVars >>

\* main.go:158-163: connectToRPC fails, sleep 30 s, continue
ConnectFailed ==
    /\ pc = "top"
    /\ ~GiveUpDue
    /\ \E r \in ConnectOutcomes :
         /\ r.err
         /\ now + r.elapsed + ConnFailSleep <= MaxTime
         /\ now' = now + r.elapsed + ConnFailSleep
         /\ conns' = conns \cup r.open
    /\ pc' = "top"
    /\ step' = "connectFailed"
    /\ prev' = Snapshot
    /\ alert' = "none"
    /\ UNCHANGED << flags, RoundState, retryStartTime, sentInitialMonitoringAlert,
                    client, rewardSub, roundSub, ticker, topics,
                    roundObs, lastConnOk, connVars >>

\* main.go:158-164: connectToRPC returns a client
Connected ==
    /\ pc = "top"
    /\ ~GiveUpDue
    /\ \E r \in ConnectOutcomes :
         /\ ~r.err
         /\ now + r.elapsed <= MaxTime
         /\ now' = now + r.elapsed
         /\ client' = r.client
         /\ conns' = conns \cup r.open
    /\ lastConnOk' = now'
    /\ pc' = "loadABI"
    /\ step' = "connected"
    /\ prev' = Snapshot
    /\ alert' = "none"
    /\ UNCHANGED << flags, RoundState, retryStartTime, sentInitialMonitoringAlert,
                    rewardSub, roundSub, ticker, topics, roundObs, connVars >>

\* main.go:167-184: both ABI files are read and parsed
LoadABIs ==
    /\ pc = "loadABI"
    /\ pc' = "subReward"
    /\ step' = "loadABIs"
    /\ prev' = Snapshot
    /\ alert' = "none"
    /\ UNCHANGED << flags, RoundState, retryStartTime, sentInitialMonitoringAlert,
                    client, rewardSub, roundSub, ticker, now, conns, topics,
                    roundObs, lastConnOk, connVars >>

\* main.go:167-182: an ABI file cannot be read or parsed: log.Fatalf
LoadABIsFatal ==
    /\ pc = "loadABI"
    /\ pc' = "abiFatal"
    /\ step' = "abiFatal"
    /\ prev' = Snapshot
    /\ alert' = "none"
    /\ UNCHANGED << flags, RoundState, retryStartTime, sentInitialMonitoringAlert,
                    client, rewardSub, roundSub, ticker, now, conns, topics,
                    roundObs, lastConnOk, connVars >>

\* main.go:187-194: the Reward filter is subscribed
SubscribeReward ==
    /\ pc = "subReward"
    /\ rewardSub' = TRUE
    /\ pc' = "subRound"
    /\ step' = "subscribeReward"
    /\ prev' = Snapshot
    /\ alert' = "none"
    /\ UNCHANGED << flags, RoundState, retryStartTime, sentInitialMonitoringAlert,
                    client, roundSub, ticker, now, conns, topics,
                    roundObs, lastConnOk, connVars >>

\* main.go:195-200: the Reward subscription fails: close, sleep 5 s, continue
RewardSubFailed ==
    /\ pc = "subReward"
    /\ now + SubFailSleep <= MaxTime
    /\ conns' = conns \ {client}
    /\ client' = NoClient
    /\ now' = now + SubFailSleep
    /\ pc' = "top"
    /\ step' = "rewardSubFailed"
    /\ prev' = Snapshot
    /\ alert' = "none"
    /\ UNCHANGED << flags, RoundState, retryStartTime, sentInitialMonitoringAlert,
                    rewardSub, roundSub, ticker, topics,
                    roundObs, lastConnOk, connVars >>

\* SubscribeRound without sentInitialMonitoringAlert = true
SubscribeRound_ForgetsMonitoringAlert ==
    /\ pc = "subRound"
    /\ roundSub' = TRUE
    /\ alert' = IF ~sentInitialMonitoringAlert THEN "monitoring"
                ELSE IF enableRPCAlerts THEN "recovery" ELSE "none"
    /\ ticker' = now + CheckInterval
    /\ pc' = "monitor"
    /\ step' = "subscribeRound"
    /\ prev' = Snapshot
    /\ UNCHANGED << flags, RoundState, retryStartTime, sentInitialMonitoringAlert,
                    client, rewardSub, now, conns, topics,
                    roundObs, lastConnOk, connVars >>

\* main.go:201-207, 216-230: the NewRound filter is subscribed, the monitoring
\* or recovery alert is sent and the ticker is started
SubscribeRound ==
    /\ pc = "subRound"
    /\ roundSub' = TRUE
    /\ alert' = IF ~sentInitialMonitoringAlert THEN "monitoring"
                ELSE IF enableRPCAlerts THEN "recovery" ELSE "none"
    /\ sentInitialMonitoringAlert' = TRUE
    /\ ticker' = now + CheckInterval
    /\ pc' = "monitor"
    /\ step' = "subscribeRound"
    /\ prev' = Snapshot
    /\ UNCHANGED << flags, RoundState, retryStartTime,
                    client, rewardSub, now, conns, topics,
                    roundObs, lastConnOk, connVars >>

\* RoundSubFailed without rewardSub.Unsubscribe()
RoundSubFailed_KeepsRewardSub ==
    /\ pc = "subRound"
    /\ now + SubFailSleep <= MaxTime
    /\ conns' = conns \ {client}
    /\ client' = NoClient
    /\ now' = now + SubFailSleep
    /\ pc' = "top"
    /\ step' = "roundSubFailed"
    /\ prev' = Snapshot
    /\ alert' = "none"
    /\ UNCHANGED << flags, RoundState, retryStartTime, sentInitialMonitoringAlert,
                    rewardSub, roundSub, ticker, topics, roundObs, lastConnOk,
                    connVars >>

\* main.go:208-214: the NewRound subscription fails: unsubscribe the Reward
\* subscription, close, sleep 5 s, continue
RoundSubFailed ==
    /\ pc = "subRound"
    /\ now + SubFailSleep <= MaxTime
    /\ rewardSub' = FALSE
    /\ conns' = conns \ {client}
    /\ client' = NoClient
    /\ now' = now + SubFailSleep
    /\ pc' = "top"
    /\ step' = "roundSubFailed"
    /\ prev' = Snapshot
    /\ alert' = "none"
    /\ UNCHANGED << flags, RoundState, retryStartTime, sentInitialMonitoringAlert,
                    roundSub, ticker, topics, roundObs, lastConnOk, connVars >>

\* the rewardSub.Err() case with the error alert sent whatever the flag says
RewardSubErr_AlwaysAlerts ==
    /\ pc = "monitor"
    /\ alert' = "rewardSubError"
    /\ pc' = "cleanup"
    /\ step' = "rewardSubErr"
    /\ prev' = Snapshot
    /\ UNCHANGED << flags, RoundState, retryStartTime, sentInitialMonitoringAlert,
                    client, rewardSub, roundSub, ticker, now, conns, topics,
                    roundObs, lastConnOk, connVars >>

\* main.go:234-239: case err := <-rewardSub.Err()
RewardSubErr ==
    /\ pc = "monitor"
    /\ alert' = IF enableRPCAlerts THEN "rewardSubError" ELSE "none"
    /\ pc' = "cleanup"
    /\ step' = "rewardSubErr"
    /\ prev' = Snapshot
    /\ UNCHANGED << flags, RoundState, retryStartTime, sentInitialMonitoringAlert,
                    client, rewardSub, roundSub, ticker, now, conns, topics,
                    roundObs, lastConnOk, connVars >>

\* main.go:240-245: case err := <-roundSub.Err()
RoundSubErr ==
    /\ pc = "monitor"
    /\ alert' = IF enableRPCAlerts THEN "roundSubError" ELSE "none"
    /\ pc' = "cleanup"
    /\ step' = "roundSubErr"
    /\ prev' = Snapshot
    /\ UNCHANGED << flags, RoundState, retryStartTime, sentInitialMonitoringAlert,
                    client, rewardSub, roundSub, ticker, now, conns, topics,
                    roundObs, lastConnOk, connVars >>

\* the rewardCh case with the success alert sent whatever the flag says
RewardEvent_AlwaysAlerts ==
    /\ pc = "monitor"
    /\ rewardCalled' = TRUE
    /\ alert' = "success"
    /\ step' = "reward"
    /\ prev' = Snapshot
    /\ UNCHANGED << flags, currentRound, roundStart, sentWarning,
                    retryStartTime, sentInitialMonitoringAlert,
                    client, rewardSub, roundSub, ticker, now, conns, pc, topics,
                    roundObs, lastConnOk, connVars >>

\* main.go:246-257: case vLog := <-rewardCh
RewardEvent ==
    /\ pc = "monitor"
    /\ rewardCalled' = TRUE
    /\ alert' = IF ~disableSuccessAlerts THEN "success" ELSE "none"
    /\ step' = "reward"
    /\ prev' = Snapshot
    /\ UNCHANGED << flags, currentRound, roundStart, sentWarning,
                    retryStartTime, sentInitialMonitoringAlert,
                    client, rewardSub, roundSub, ticker, now, conns, pc, topics,
                    roundObs, lastConnOk, connVars >>

\* the roundCh case with sentWarning reset only when the round alert is sent
NewRoundEvent_MutedKeepsWarning ==
    /\ pc = "monitor"
    /\ \E t \in TopicLists :
         /\ topics' = t
         /\ currentRound' = DecodeRound(t)
    /\ roundStart' = now
    /\ rewardCalled' = FALSE
    /\ sentWarning' = (disableRoundAlerts /\ sentWarning)
    /\ alert' = IF ~disableRoundAlerts THEN "newRound" ELSE "none"
    /\ step' = "newRound"
    /\ prev' = Snapshot
    /\ warnings' = 0
    /\ dueTicks' = 0
    /\ dueTicksNoReward' = 0
    /\ UNCHANGED << flags, retryStartTime, sentInitialMonitoringAlert,
                    client, rewardSub, roundSub, ticker, now, conns, pc,
                    lastConnOk, connVars >>

\* main.go:258-272: case vLog := <-roundCh
NewRoundEvent ==
    /\ pc = "monitor"
    /\ \E t \in TopicLists :
         /\ topics' = t
         /\ currentRound' = DecodeRound(t)
    /\ roundStart' = now
    /\ rewardCalled' = FALSE
    /\ sentWarning' = FALSE
    /\ alert' = IF ~disableRoundAlerts THEN "newRound" ELSE "none"
    /\ step' = "newRound"
    /\ prev' = Snapshot
    /\ warnings' = 0
    /\ dueTicks' = 0
    /\ dueTicksNoReward' = 0
    /\ UNCHANGED << flags, retryStartTime, sentInitialMonitoringAlert,
                    client, rewardSub, roundSub, ticker, now, conns, pc,
                    lastConnOk, connVars >>

\* the ticker case with sentWarning set only when sendAlert returns no error
Tick_WarnedOnlyIfDelivered ==
    /\ pc = "monitor"
    /\ now = ticker
    /\ ticker' = ticker + CheckInterval
    /\ IF WarningDue
       THEN /\ alert' = "warning"
            /\ sentWarning' = ~sendAlert(alertCfg, sendOutcome).err
            /\ warnings' = warnings + 1
       ELSE /\ alert' = "none"
            /\ UNCHANGED << sentWarning, warnings >>
    /\ dueTicks' = IF roundStart # ZeroTime /\ now - roundStart >= delay
                   THEN dueTicks + 1 ELSE dueTicks
    /\ dueTicksNoReward' =
           IF roundStart # ZeroTime /\ now - roundStart >= delay /\ ~rewardCalled
           THEN dueTicksNoReward + 1 ELSE dueTicksNoReward
    /\ step' = "tick"
    /\ prev' = Snapshot
    /\ UNCHANGED << flags, currentRound, roundStart, rewardCalled,
                    retryStartTime, sentInitialMonitoringAlert,
                    client, rewardSub, roundSub, now, conns, pc, topics,
                    lastConnOk, connVars >>

\* main.go:273-287: case <-ticker.C
Tick ==
    /\ pc = "monitor"
    /\ now = ticker
    /\ ticker' = ticker + CheckInterval
    /\ IF WarningDue
       THEN /\ alert' = "warning"
            /\ sentWarning' = TRUE
            /\ warnings' = warnings + 1
       ELSE /\ alert' = "none"
            /\ UNCHANGED << sentWarning, warnings >>
    /\ dueTicks' = IF roundStart # ZeroTime /\ now - roundStart >= delay
                   THEN dueTicks + 1 ELSE dueTicks
    /\ dueTicksNoReward' =
           IF roundStart # ZeroTime /\ now - roundStart >= delay /\ ~rewardCalled
           THEN dueTicksNoReward + 1 ELSE dueTicksNoReward
    /\ step' = "tick"
    /\ prev' = Snapshot
    /\ UNCHANGED << flags, currentRound, roundStart, rewardCalled,
                    retryStartTime, sentInitialMonitoringAlert,
                    client, rewardSub, roundSub, now, conns, pc, topics,
                    lastConnOk, connVars >>

\* the select of the monitoring loop blocks: no channel is ready before the
\* next tick
Wait ==
    /\ pc = "monitor"
    /\ now < ticker
    /\ now < MaxTime
    /\ now' = now + 1
    /\ step' = "wait"
    /\ prev' = Snapshot
    /\ alert' = "none"
    /\ UNCHANGED << flags, RoundState, retryStartTime, sentInitialMonitoringAlert,
                    client, rewardSub, roundSub, ticker, conns, pc, topics,
                    roundObs, lastConnOk, connVars >>

\* Cleanup without retryStartTime = time.Now()
Cleanup_KeepsRetryStart ==
    /\ pc = "cleanup"
    /\ now + CleanupSleep <= MaxTime
    /\ ticker' = ZeroTime
    /\ rewardSub' = FALSE
    /\ roundSub' = FALSE
    /\ conns' = conns \ {client}
    /\ client' = NoClient
    /\ now' = now + CleanupSleep
    /\ pc' = "top"
    /\ step' = "cleanup"
    /\ prev' = Snapshot
    /\ alert' = "none"
    /\ UNCHANGED << flags, RoundState, retryStartTime, sentInitialMonitoringAlert,
                    topics, roundObs, lastConnOk, connVars >>

\* Cleanup without ticker.Stop()
Cleanup_KeepsTicker ==
    /\ pc = "cleanup"
    /\ now + CleanupSleep <= MaxTime
    /\ rewardSub' = FALSE
    /\ roundSub' = FALSE
    /\ conns' = conns \ {client}
    /\ client' = NoClient
    /\ now' = now + CleanupSleep
    /\ retryStartTime' = now'
    /\ pc' = "top"
    /\ step' = "cleanup"
    /\ prev' = Snapshot
    /\ alert' = "none"
    /\ UNCHANGED << flags, RoundState, sentInitialMonitoringAlert, ticker,
                    topics, roundObs, lastConnOk, connVars >>

\* Cleanup that also starts the next epoch with a fresh round state
Cleanup_ResetsRoundState ==
    /\ pc = "cleanup"
    /\ now + CleanupSleep <= MaxTime
    /\ ticker' = ZeroTime
    /\ rewardSub' = FALSE
    /\ roundSub' = FALSE
    /\ conns' = conns \ {client}
    /\ client' = NoClient
    /\ now' = now + CleanupSleep
    /\ retryStartTime' = now'
    /\ pc' = "top"
    /\ step' = "cleanup"
    /\ prev' = Snapshot
    /\ alert' = "none"
    /\ currentRound' = 0
    /\ roundStart' = ZeroTime
    /\ rewardCalled' = FALSE
    /\ sentWarning' = FALSE
    /\ UNCHANGED << flags, sentInitialMonitoringAlert, topics,
                    roundObs, lastConnOk, connVars >>

\* main.go:291-297: stop the ticker, unsubscribe both, close, sleep 5 s,
\* restart the retry timer
Cleanup ==
    /\ pc = "cleanup"
    /\ now + CleanupSleep <= MaxTime
    /\ ticker' = ZeroTime
    /\ rewardSub' = FALSE
    /\ roundSub' = FALSE
    /\ conns' = conns \ {client}
    /\ client' = NoClient
    /\ now' = now + CleanupSleep
    /\ retryStartTime' = now'
    /\ pc' = "top"
    /\ step' = "cleanup"
    /\ prev' = Snapshot
    /\ alert' = "none"
    /\ UNCHANGED << flags, RoundState, sentInitialMonitoringAlert, topics,
                    roundObs, lastConnOk, connVars >>

Next ==
    \/ GiveUp
    \/ ConnectFailed
    \/ Connected
    \/ LoadABIs
    \/ LoadABIsFatal
    \/ SubscribeReward
    \/ RewardSubFailed
    \/ SubscribeRound
    \/ RoundSubFailed
    \/ RewardSubErr
    \/ RoundSubErr
    \/ RewardEvent
    \/ NewRoundEvent
    \/ Tick
    \/ Wait
    \/ Cleanup

Spec == Init /\ [][Next]_vars

---------------------------------------------------------------------------
\* The failover loop with endpoints whose behaviour does not change: every
\* call of connectToRPC meets the same list of endpoints, and at least one
\* of them dials and answers eth_blockNumber.  The logs of the two feeds
\* are left out: no step of the failover loop reads the round state.

\* the URL lists with at least one endpoint that works
SteadyLists ==
    { l \in [1..MaxRpcs -> Behaviours] : \E i \in 1..MaxRpcs : l[i] = "ok" }

InitRecover ==
    /\ delay = Delay
    /\ repeat = TRUE
    /\ maxRetryTime \in {0, RetryWindow}
    /\ disableSuccessAlerts = FALSE
    /\ disableRoundAlerts = FALSE
    /\ enableRPCAlerts = FALSE
    /\ InitMain
    /\ rpcList \in SteadyLists
    /\ rpcResult = NoResult
    /\ alertCfg = WebhookOnly
    /\ sendOutcome = AllDelivered
    /\ alertResult = NoAlertResult

\* main.go:158-163: connectToRPC(rpcList) fails, sleep 30 s, continue
ConnectFailedSteady ==
    /\ pc = "top"
    /\ ~GiveUpDue
    /\ LET r == connectToRPC(rpcList)
       IN  /\ r.err
           /\ now + r.elapsed + ConnFailSleep <= MaxTime
           /\ now' = now + r.elapsed + ConnFailSleep
           /\ conns' = conns \cup r.open
    /\ pc' = "top"
    /\ step' = "connectFailed"
    /\ prev' = Snapshot
    /\ alert' = "none"
    /\ UNCHANGED << flags, RoundState, retryStartTime, sentInitialMonitoringAlert,
                    client, rewardSub, roundSub, ticker, topics,
                    roundObs, lastConnOk, connVars >>

\* main.go:158-164: connectToRPC(rpcList) returns a client
ConnectedSteady ==
    /\ pc = "top"
    /\ ~GiveUpDue
    /\ LET r == connectToRPC(rpcList)
       IN  /\ ~r.err
           /\ now + r.elapsed <= MaxTime
           /\ now' = now + r.elapsed
           /\ client' = r.client
           /\ conns' = conns \cup r.open
    /\ lastConnOk' = now'
    /\ pc' = "loadABI"
    /\ step' = "connected"
    /\ prev' = Snapshot
    /\ alert' = "none"
    /\ UNCHANGED << flags, RoundState, retryStartTime, sentInitialMonitoringAlert,
                    rewardSub, roundSub, ticker, topics, roundObs, connVars >>

NextRecover ==
    \/ GiveUp
    \/ ConnectFailedSteady
    \/ ConnectedSteady
    \/ LoadABIs
    \/ LoadABIsFatal
    \/ SubscribeReward
    \/ RewardSubFailed
    \/ SubscribeRound
    \/ RoundSubFailed
    \/ RewardSubErr
    \/ RoundSubErr
    \/ Tick
    \/ Wait
    \/ Cleanup

SpecRecover == InitRecover /\ [][NextRecover]_vars

---------------------------------------------------------------------------
\* The watcher under every setting of the three alert flags
\* (main.go:118-120), with repeat on and the retry window set.

InitFlags ==
    /\ delay = Delay
    /\ repeat = TRUE
    /\ maxRetryTime = RetryWindow
    /\ disableSuccessAlerts \in BOOLEAN
    /\ disableRoundAlerts \in BOOLEAN
    /\ enableRPCAlerts \in BOOLEAN
    /\ InitMain
    /\ rpcList = <<>>
    /\ rpcResult = NoResult
    /\ alertCfg = WebhookOnly
    /\ sendOutcome = AllDelivered
    /\ alertResult = NoAlertResult

SpecFlags == InitFlags /\ [][Next]_vars

---------------------------------------------------------------------------
\* The watcher with every channel configured and channels that deliver,
\* fail in part or fail altogether: what each sendAlert call of main()
\* returns is sendAlert(alertCfg, sendOutcome).  main() drops that result
\* at every call (main.go:153, 222, 227, 237, 243, 256, 271, 283).

\* every channel configured
AllChannels ==
    [botToken |-> "x", chatID |-> "x", discordWebhook |-> "x",
     emailCfg |-> [Host |-> "x", Username |-> "x", Password |-> "x",
                   From |-> "x", To |-> <<"x">>]]

\* all channels deliver, one fails, all fail
DeliveryOutcomes ==
    { AllDelivered,
      [Discord |-> "ok", Telegram |-> "err", Email |-> "ok"],
      [Discord |-> "err", Telegram |-> "err", Email |-> "err"] }

InitDelivery ==
    /\ delay = Delay
    /\ repeat \in BOOLEAN
    /\ maxRetryTime = RetryWindow
    /\ disableSuccessAlerts = FALSE
    /\ disableRoundAlerts = FALSE
    /\ enableRPCAlerts = FALSE
    /\ InitMain
    /\ rpcList = <<>>
    /\ rpcResult = NoResult
    /\ alertCfg = AllChannels
    /\ sendOutcome \in DeliveryOutcomes
    /\ alertResult = NoAlertResult

SpecDelivery == InitDelivery /\ [][Next]_vars

---------------------------------------------------------------------------
\* The watcher with sendAlert calls that do not return.  main() calls
\* sendAlert in line, and the senders use http.Post, which has no timeout.
\* In the rewardCh and roundCh cases the call is the last statement, so the
\* state in which it blocks is the state after the case.

\* main.go:256, 271: the sendAlert call of the last reward or new-round step
\* blocks in http.Post
SendAlertBlocks ==
    /\ pc = "monitor"
    /\ step \in {"reward", "newRound"}
    /\ alert # "none"
    /\ ~delivering
    /\ delivering' = TRUE
    /\ UNCHANGED << flags, RoundState, retryStartTime, sentInitialMonitoringAlert,
                    client, rewardSub, roundSub, ticker, now, conns, pc,
                    step, alert, topics, prev, roundObs, lastConnOk,
                    rpcList, rpcResult, alertCfg, sendOutcome, alertResult >>

\* main.go:149-298: the loop takes its next step once sendAlert has returned
RunLoop ==
    /\ ~delivering
    /\ Next

NextBlocking ==
    \/ RunLoop
    \/ SendAlertBlocks

SpecBlocking == Init /\ [][NextBlocking]_vars

---------------------------------------------------------------------------
\* connectToRPC on its own: the list of URLs is drawn from every list of one
\* to MaxRpcs endpoints, and the one step is the call.

InitConnect ==
    /\ delay = Delay
    /\ repeat = TRUE
    /\ maxRetryTime = RetryWindow
    /\ disableSuccessAlerts = FALSE
    /\ disableRoundAlerts = FALSE
    /\ enableRPCAlerts = FALSE
    /\ InitMain
    /\ rpcList \in RpcLists
    /\ rpcResult = NoResult
    /\ alertCfg = WebhookOnly
    /\ sendOutcome = AllDelivered
    /\ alertResult = NoAlertResult

CallConnect ==
    /\ step = "start"
    /\ rpcResult' = connectToRPC(rpcList)
    /\ step' = "connectToRPC"
    /\ UNCHANGED << flags, RoundState, retryStartTime, sentInitialMonitoringAlert,
                    client, rewardSub, roundSub, ticker, now, conns, pc, alert,
                    topics, prev, roundObs, lastConnOk, rpcList,
                    alertCfg, sendOutcome, alertResult, delivering >>

NextConnect ==
    CallConnect

SpecConnect == InitConnect /\ [][NextConnect]_vars

---------------------------------------------------------------------------
\* sendAlert on its own: the channel arguments are drawn from every
\* combination of empty and non-empty fields, the sends of the channels from
\* everything they can do, and the one step is the call.

InitAlert ==
    /\ delay = Delay
    /\ repeat = TRUE
    /\ maxRetryTime = RetryWindow
    /\ disableSuccessAlerts = FALSE
    /\ disableRoundAlerts = FALSE
    /\ enableRPCAlerts = FALSE
    /\ InitMain
    /\ rpcList = <<>>
    /\ rpcResult = NoResult
    /\ alertCfg \in AlertConfigs
    /\ sendOutcome \in SendOutcomes
    /\ alertResult = NoAlertResult

CallSendAlert ==
    /\ step = "start"
    /\ alertResult' = sendAlert(alertCfg, sendOutcome)
    /\ step' = "sendAlert"
    /\ UNCHANGED << flags, RoundState, retryStartTime, sentInitialMonitoringAlert,
                    client, rewardSub, roundSub, ticker, now, conns, pc, alert,
                    topics, prev, roundObs, lastConnOk, rpcList, rpcResult,
                    alertCfg, sendOutcome, delivering >>

NextAlert ==
    CallSendAlert

SpecAlert == InitAlert /\ [][NextAlert]_vars

---------------------------------------------------------------------------
\* Properties of the ticker case

\* elapsed >= delay at the last step, which left the clock and roundStart alone
DelayReached ==
    prev.roundStart # ZeroTime /\ now - prev.roundStart >= delay

\* C1: a processed tick sends the missing-reward warning if and only if a
\* round has been observed, rewardCalled is false, the time since roundStart
\* is at least the delay and (repeat or no warning sent yet); a tick that
\* warns sets sentWarning, a tick that does not warn leaves the round state
\* as it was.
C1_TickWarnsIffDue ==
    step = "tick" =>
        /\ (alert = "warning") <=>
               /\ prev.roundStart # ZeroTime
               /\ ~prev.rewardCalled
               /\ now - prev.roundStart >= delay
               /\ (repeat \/ ~prev.sentWarning)
        /\ (alert = "warning" => sentWarning)
        /\ (alert # "warning" => Snapshot = prev)

\* a tick has sent a warning and set sentWarning, at the very tick at which
\* the delay is reached
C1_Witness ==
    /\ step = "tick" /\ alert = "warning"
    /\ sentWarning /\ ~prev.sentWarning
    /\ now - roundStart = delay

\* C2: without repeat, a round with no reward event that has had at least
\* one tick past the delay has had exactly one warning, however many such
\* ticks there were and whatever reconnections happened in between.
C2_OneWarningWithoutRepeat ==
    (~repeat /\ roundStart # ZeroTime /\ ~rewardCalled /\ dueTicks >= 1)
        => warnings = 1

\* two ticks past the delay in one round without a reward, with a teardown
\* and a reconnection after the round began, and one warning
C2_Witness ==
    /\ ~repeat /\ roundStart # ZeroTime /\ ~rewardCalled
    /\ dueTicks >= 2 /\ warnings = 1
    /\ retryStartTime > roundStart
    /\ step = "tick"

\* C3 as claimed: with repeat, the warnings of a round are as many as its
\* ticks at which the time since roundStart was at least the delay.
C3_WarningsEqualDueTicks ==
    (repeat /\ roundStart # ZeroTime) => warnings = dueTicks

\* C3 amended: with repeat, the warnings of a round are as many as its ticks
\* at which the time since roundStart was at least the delay and rewardCalled
\* was false.
C3_WarningsEqualDueTicksBeforeReward ==
    (repeat /\ roundStart # ZeroTime) => warnings = dueTicksNoReward

\* with repeat, two warnings in one round, then a reward event, then a tick
\* past the delay that sent nothing
C3_Witness ==
    /\ repeat /\ warnings >= 2
    /\ dueTicks > dueTicksNoReward
    /\ step = "tick" /\ alert = "none"

---------------------------------------------------------------------------
\* Properties of the roundCh and rewardCh cases

\* C4: the state after a NewRound log is processed has currentRound = the
\* round of the log, which is the low 64 bits of its second topic (0 when
\* the log has no second topic), roundStart = now, rewardCalled and
\* sentWarning false, whatever the state before was.
C4_NewRoundResets ==
    step = "newRound" =>
        /\ (Len(topics) >= 2 => currentRound = topics[2].lo)
        /\ (Len(topics) < 2 => currentRound = 0)
        /\ roundStart = now
        /\ ~rewardCalled
        /\ ~sentWarning

\* a NewRound log with a lower round number, processed when the previous
\* round had a warning sent and then its reward called
C4_Witness ==
    /\ step = "newRound"
    /\ prev.rewardCalled /\ prev.sentWarning
    /\ Len(topics) = 2 /\ currentRound < prev.currentRound
    /\ ~rewardCalled /\ ~sentWarning

\* C5 as claimed: sentWarning only if rewardCalled is false and currentRound
\* is not 0.
C5_WarningImpliesNoRewardAndRound ==
    sentWarning => (~rewardCalled /\ currentRound # 0)

\* C5 amended: sentWarning only if a round has been observed and a tick of
\* the round past the delay was processed while rewardCalled was false; the
\* step that sets sentWarning leaves rewardCalled false.
C5_WarningImpliesRoundObserved ==
    /\ sentWarning => (roundStart # ZeroTime /\ dueTicksNoReward >= 1)
    /\ (sentWarning /\ ~prev.sentWarning) => (~rewardCalled /\ step = "tick")

\* sentWarning with the reward called afterwards, in a round numbered 0
C5_Witness ==
    /\ sentWarning /\ rewardCalled /\ currentRound = 0
    /\ step = "reward" /\ prev.sentWarning

\* C6: a reward event leaves sentWarning, currentRound and roundStart alone
\* and sets rewardCalled; a second one changes nothing; rewardCalled stays
\* true until the next NewRound log, and no tick warns while it is true,
\* with or without repeat.
C6_RewardAfterWarning ==
    /\ step = "reward" =>
           /\ rewardCalled
           /\ sentWarning = prev.sentWarning
           /\ currentRound = prev.currentRound
           /\ roundStart = prev.roundStart
    /\ (step = "reward" /\ prev.rewardCalled) => Snapshot = prev
    /\ (prev.rewardCalled /\ step # "newRound") => rewardCalled
    /\ (step = "tick" /\ prev.rewardCalled) =>
           (alert = "none" /\ Snapshot = prev)

\* with repeat, a tick past the delay that sent nothing because the reward
\* was called after the round's warning
C6_Witness ==
    /\ repeat /\ step = "tick" /\ alert = "none"
    /\ prev.rewardCalled /\ prev.sentWarning
    /\ DelayReached

---------------------------------------------------------------------------
\* Properties of connectToRPC

\* the endpoints of the list that dial and answer eth_blockNumber
Working(rpcs) ==
    { i \in DOMAIN rpcs : rpcs[i] = "ok" }

\* C7 as claimed: connectToRPC returns the first endpoint of the list that
\* dials and answers the probe, fails only if there is none, and leaves no
\* connection open but the one it returns.
C7_ReturnsFirstWorking ==
    step = "connectToRPC" =>
        /\ (Working(rpcList) # {} =>
               /\ ~rpcResult.err
               /\ rpcResult.client \in Working(rpcList)
               /\ \A i \in Working(rpcList) : rpcResult.client <= i)
        /\ (Working(rpcList) = {} => rpcResult.err)
        /\ rpcResult.open \subseteq {rpcResult.client}

---------------------------------------------------------------------------
\* Properties of the give-up check

\* C8 as claimed: the give-up exit happens only when at least the retry
\* window has passed since connectToRPC last returned a client (or since the
\* start when it never did).
C8_GiveUpOnlyAfterWindow ==
    pc = "gaveUp" => now - lastConnOk >= maxRetryTime

\* C9 as claimed: retryStartTime is reset whenever connectToRPC returns a
\* client, so the give-up exit is never taken when a client was returned
\* after the retry window began.
C9_ResetOnConnect ==
    /\ step = "connected" => retryStartTime = now
    /\ pc = "gaveUp" => lastConnOk <= retryStartTime

\* C10: with --max-retry-time=0 the give-up exit is never taken, and at the
\* top of the failover loop the next connection attempt can be made.
C10_ZeroDisablesGiveUp ==
    /\ maxRetryTime = 0 => pc # "gaveUp"
    /\ (maxRetryTime = 0 /\ pc = "top") => ENABLED Connected

\* --max-retry-time=0, a connection attempt has just failed, more time than
\* RetryWindow has passed since retryStartTime, and the loop is at its top
C10_Witness ==
    /\ maxRetryTime = 0 /\ pc = "top"
    /\ step \in {"connectFailed", "rewardSubFailed", "roundSubFailed"}
    /\ now - retryStartTime > RetryWindow

---------------------------------------------------------------------------
\* Properties of the failover loop

\* C11 as claimed: the process terminates only by the give-up exit, which
\* hands the fatal alert to sendAlert first; no other step of an epoch
\* terminates it.
C11_OnlyGiveUpTerminates ==
    pc \in {"gaveUp", "abiFatal"} => (step = "giveUp" /\ alert = "fatal")

\* C12: one of the two subscriptions is live without the other only between
\* the two opening steps; after either opening fails no subscription is
\* live, the client is closed, no ticker was started, the backoff sleep was
\* taken and the loop is at its top, where the next connection attempt
\* begins.
C12_NoPartialSubscription ==
    /\ (rewardSub # roundSub) => (rewardSub /\ pc = "subRound")
    /\ step \in {"rewardSubFailed", "roundSubFailed"} =>
           /\ ~rewardSub /\ ~roundSub
           /\ client = NoClient /\ conns = {}
           /\ ticker = ZeroTime
           /\ now = lastConnOk + SubFailSleep
           /\ pc = "top"

\* the NewRound subscription has failed after the Reward subscription was
\* opened, in a second or later epoch
C12_Witness ==
    /\ step = "roundSubFailed" /\ pc = "top"
    /\ ~rewardSub /\ ~roundSub
    /\ sentInitialMonitoringAlert

\* C13: at most one connection is open and it is the client's; a
\* subscription is live only on an open client; at the top of the failover
\* loop, where a connection attempt begins, no connection, subscription or
\* ticker of an earlier epoch is left.
C13_EpochsDoNotOverlap ==
    /\ Cardinality(conns) <= 1
    /\ conns \subseteq {client}
    /\ (rewardSub \/ roundSub) => (client # NoClient /\ client \in conns)
    /\ roundSub => rewardSub
    /\ pc = "top" =>
           /\ conns = {} /\ client = NoClient
           /\ ~rewardSub /\ ~roundSub
           /\ ticker = ZeroTime

\* the top of the loop after the cleanup of an epoch that a feed fault
\* ended, in a run in which an earlier connection attempt failed
C13_Witness ==
    /\ pc = "top" /\ step = "cleanup"
    /\ conns = {} /\ ~rewardSub /\ ~roundSub
    /\ retryStartTime > lastConnOk
    /\ lastConnOk >= ConnFailSleep

---------------------------------------------------------------------------
\* Properties of sendAlert

\* the channels whose required fields are all non-empty
Configured(cfg) ==
    { ch \in {"Discord", "Telegram", "Email"} :
        \/ ch = "Discord" /\ cfg.discordWebhook # ""
        \/ ch = "Telegram" /\ cfg.botToken # "" /\ cfg.chatID # ""
        \/ ch = "Email" /\ cfg.emailCfg.Host # "" /\ cfg.emailCfg.From # ""
                        /\ cfg.emailCfg.To # <<>> /\ cfg.emailCfg.Username # ""
                        /\ cfg.emailCfg.Password # "" }

\* the elements of a sequence
Range(q) ==
    { q[i] : i \in DOMAIN q }

\* C14: sendAlert sends to exactly the configured channels, to each of them
\* whether or not an earlier one failed; its error names exactly the
\* configured channels whose send returned an error, each once; it returns
\* no error when there is none or when no channel is configured.
C14_SendAlertReportsFailures ==
    step = "sendAlert" =>
        LET bad == { ch \in Configured(alertCfg) : sendOutcome[ch] = "err" }
        IN  /\ alertResult.attempted = Configured(alertCfg)
            /\ Range(alertResult.failed) = bad
            /\ Len(alertResult.failed) = Cardinality(bad)
            /\ alertResult.err <=> (bad # {})

\* three configured channels of which the first two fail and the third
\* delivers
C14_Witness ==
    /\ step = "sendAlert"
    /\ alertResult.attempted = {"Discord", "Telegram", "Email"}
    /\ alertResult.failed = <<"Discord", "Telegram">>
    /\ alertResult.err
    /\ sendOutcome.Email = "ok"

---------------------------------------------------------------------------
\* Properties of alert delivery in the monitoring loop

\* C15 as claimed: in the monitoring loop the next input can be processed
\* whether or not the alert of the last step has been delivered.
C15_DeliveryDoesNotBlock ==
    pc = "monitor" => ENABLED RunLoop

\* C16: a processed reward event sets rewardCalled; it hands a success alert
\* to sendAlert when disableSuccessAlerts is false and hands nothing to
\* sendAlert when the flag is true.
C16_SuccessAlertFollowsFlag ==
    step = "reward" =>
        /\ rewardCalled
        /\ disableSuccessAlerts => alert = "none"
        /\ ~disableSuccessAlerts => alert = "success"

\* a reward event was processed with the success alerts disabled, in a round
\* that had already been warned about
C16_Witness ==
    /\ step = "reward"
    /\ disableSuccessAlerts
    /\ rewardCalled /\ ~prev.rewardCalled
    /\ sentWarning
    /\ alert = "none"

\* C17 as claimed: every subscription error and every restored connection
\* hands an alert to sendAlert, whatever the flags say.
C17_FaultsAndRecoveryAlwaysAlert ==
    /\ step \in {"rewardSubErr", "roundSubErr"} => alert # "none"
    /\ (step = "subscribeRound" /\ pc = "monitor") => alert # "none"

---------------------------------------------------------------------------
\* Properties of the round state over whole executions

\* C18 as claimed: no step lowers currentRound, and currentRound is 0 only
\* while no round has been observed.
C18_RoundNeverDecreases ==
    /\ currentRound >= prev.currentRound
    /\ currentRound = 0 => roundStart = ZeroTime

\* C18 amended: currentRound changes only when a NewRound log is processed
\* and is then the round number of that log (0 when the log has no second
\* topic), whether or not that is lower than the value before; it is 0 as
\* long as no NewRound log has been processed.
C18_RoundFollowsLastLog ==
    /\ step # "newRound" => currentRound = prev.currentRound
    /\ step = "newRound" =>
           currentRound = (IF Len(topics) > 1 THEN topics[2].lo ELSE 0)
    /\ roundStart = ZeroTime => currentRound = 0

\* a NewRound log with round number 0 was processed after round 1 had been
\* observed: currentRound went down, to 0, with a round observed
C18_Witness ==
    /\ step = "newRound"
    /\ prev.roundStart # ZeroTime
    /\ prev.currentRound = 1
    /\ currentRound = 0
    /\ roundStart # ZeroTime

\* C19: only a new-round step, a reward step or a tick changes the round
\* state; every other step (failed or successful connect, ABI loading,
\* subscribing and its failures, subscription errors, cleanup, waiting,
\* give-up) leaves all four fields as they were; a reward step changes at
\* most rewardCalled and a tick changes at most sentWarning.
C19_RoundStateFrame ==
    /\ step \notin {"newRound", "reward", "tick"} => Snapshot = prev
    /\ step = "reward" =>
           Snapshot = [prev EXCEPT !.rewardCalled = rewardCalled]
    /\ step = "tick" =>
           Snapshot = [prev EXCEPT !.sentWarning = sentWarning]

\* a later epoch has just entered the monitoring loop with the round state
\* of the epoch before: round 1 observed and warned about
C19_Witness ==
    /\ step = "subscribeRound" /\ pc = "monitor"
    /\ retryStartTime > 0
    /\ currentRound = 1
    /\ roundStart # ZeroTime
    /\ sentWarning /\ ~rewardCalled

---------------------------------------------------------------------------
\* Recovery

\* C20 as claimed, in the form of its next step: after a failed connect, a
\* failed subscription or the cleanup that follows a subscription error,
\* when the give-up is not due and an endpoint of the list works, the
\* connect of the next epoch succeeds, so the loop goes on towards the
\* monitoring loop.
C20_ReconnectsWhileEndpointWorks ==
    ( /\ pc = "top"
      /\ step \in {"connectFailed", "rewardSubFailed", "roundSubFailed", "cleanup"}
      /\ ~GiveUpDue
      /\ Working(rpcList) # {} )
        => ENABLED ConnectedSteady

---------------------------------------------------------------------------
\* Properties of the alert flags and of the epochs

C22_DeliveryFailureChangesNothing ==
    /\ step = "tick" =>
           Snapshot = [prev EXCEPT !.sentWarning = prev.sentWarning \/ alert = "warning"]
    /\ step = "reward" =>
           Snapshot = [prev EXCEPT !.rewardCalled = TRUE]
    /\ step = "newRound" =>
           /\ roundStart = now
           /\ ~rewardCalled /\ ~sentWarning
    /\ (step = "tick" /\ ~repeat /\ prev.sentWarning) => alert # "warning"

\* without repeat, a warning was sent while every channel failed, and
\* sentWarning is set
C22_Witness ==
    /\ step = "tick" /\ alert = "warning"
    /\ ~repeat
    /\ sendAlert(alertCfg, sendOutcome).failed = <<"Discord", "Telegram", "Email">>
    /\ ~prev.sentWarning /\ sentWarning

\* the warning condition of the ticker case, on the round state before the
\* last step
DueBefore ==
    /\ ~prev.rewardCalled /\ prev.roundStart # ZeroTime
    /\ now - prev.roundStart >= delay
    /\ (repeat \/ ~prev.sentWarning)

\* C23, by its step conditions: under every setting of the three alert
\* flags, which inputs the loop can take next depends on its position
\* alone, and what a step does to the round state, to the position of the
\* loop, to the subscriptions and to the warning sent is fixed by the state
\* before and the input, with no flag in it.  Two runs that differ in the
\* flags alone and take the same inputs therefore stay in step.
C23_FlagsDoNotInterfere ==
    /\ pc = "monitor" =>
           /\ ENABLED RewardEvent /\ ENABLED NewRoundEvent
           /\ ENABLED RewardSubErr /\ ENABLED RoundSubErr
           /\ now = ticker => ENABLED Tick
    /\ pc = "subRound" => ENABLED SubscribeRound
    /\ step = "reward" =>
           /\ pc = "monitor"
           /\ Snapshot = [prev EXCEPT !.rewardCalled = TRUE]
    /\ step = "newRound" =>
           /\ pc = "monitor"
           /\ currentRound = (IF Len(topics) > 1 THEN topics[2].lo ELSE 0)
           /\ roundStart = now
           /\ ~rewardCalled /\ ~sentWarning /\ warnings = 0
    /\ step \in {"rewardSubErr", "roundSubErr"} =>
           /\ pc = "cleanup"
           /\ Snapshot = prev
           /\ rewardSub /\ roundSub /\ client # NoClient
    /\ step = "subscribeRound" =>
           /\ pc = "monitor"
           /\ Snapshot = prev
           /\ rewardSub /\ roundSub /\ client # NoClient
           /\ ticker = now + CheckInterval
           /\ sentInitialMonitoringAlert
    /\ step = "tick" =>
           /\ pc = "monitor"
           /\ (alert = "warning") <=> DueBefore
           /\ Snapshot = [prev EXCEPT !.sentWarning = prev.sentWarning \/ DueBefore]

\* with all three alert flags away from their defaults, a second epoch
\* warns about the round the first epoch observed
C23_Witness ==
    /\ disableSuccessAlerts /\ disableRoundAlerts /\ enableRPCAlerts
    /\ step = "tick" /\ alert = "warning"
    /\ retryStartTime > 0
    /\ roundStart < retryStartTime

\* C24: a tick is processed, and a warning sent, only in the monitoring
\* loop, with the connection open and both subscriptions established; no
\* tick can be processed at any other position of the loop; the ticker is
\* stopped by the cleanup, there is none while connecting, loading,
\* subscribing or backing off, and each epoch starts its own.
C24_WarningsOnlyWhileMonitoring ==
    /\ alert = "warning" => step = "tick"
    /\ step = "tick" =>
           /\ pc = "monitor"
           /\ client # NoClient /\ client \in conns
           /\ rewardSub /\ roundSub
    /\ pc # "monitor" => ~ENABLED Tick
    /\ step = "cleanup" => ticker = ZeroTime
    /\ pc \in {"top", "loadABI", "subReward", "subRound"} => ticker = ZeroTime
    /\ step = "subscribeRound" => ticker = now + CheckInterval

\* the watcher is backing off after a failed connect while the reward of
\* the round seen by the epoch before is overdue and no warning was sent
C24_Witness ==
    /\ pc = "top" /\ step = "connectFailed"
    /\ roundStart # ZeroTime /\ ~rewardCalled /\ ~sentWarning
    /\ now - roundStart >= delay + CheckInterval
    /\ alert = "none"

\* C25: the give-up is taken only at the top of the failover loop, with no
\* connection, subscription or ticker, and cannot be taken at any other
\* position; the cleanup restarts the retry window, so after the cleanup
\* of an epoch of any length the give-up is not due and a connect is what
\* comes next.
C25_GiveUpOnlyBetweenEpochs ==
    /\ pc # "top" => ~ENABLED GiveUp
    /\ step = "giveUp" =>
           /\ client = NoClient /\ conns = {}
           /\ ~rewardSub /\ ~roundSub
           /\ ticker = ZeroTime
    /\ step = "cleanup" =>
           /\ pc = "top"
           /\ retryStartTime = now
           /\ ~GiveUpDue
           /\ ~ENABLED GiveUp
           /\ ENABLED Connected

\* with the retry window set, an epoch that lasted longer than the window
\* was torn down and the give-up is not due
C25_Witness ==
    /\ step = "cleanup" /\ pc = "top"
    /\ maxRetryTime = RetryWindow
    /\ now - lastConnOk > maxRetryTime + CleanupSleep
    /\ ~GiveUpDue

\* C26: the monitoring alert is sent by the step that enters the
\* monitoring loop for the first time (no cleanup has run yet, so
\* retryStartTime is still 0), whatever enableRPCAlerts is, and by no other
\* step; sentInitialMonitoringAlert is set from then on; a failed connect
\* or a failed subscription sends no alert.
C26_MonitoringAlertOnce ==
    /\ alert = "monitoring" => step = "subscribeRound"
    /\ step = "subscribeRound" => (alert = "monitoring" <=> retryStartTime = 0)
    /\ sentInitialMonitoringAlert <=>
           (pc \in {"monitor", "cleanup"} \/ retryStartTime > 0)
    /\ step \in {"connectFailed", "rewardSubFailed", "roundSubFailed"} =>
           alert = "none"
    /\ alert = "recovery" => (step = "subscribeRound" /\ retryStartTime > 0)

\* with enableRPCAlerts set, the monitoring loop is entered for the first
\* time after an earlier attempt failed, and the monitoring alert is sent
C26_Witness ==
    /\ enableRPCAlerts
    /\ step = "subscribeRound" /\ alert = "monitoring"
    /\ now > 0 /\ retryStartTime = 0
    /\ sentInitialMonitoringAlert

====
